---- MODULE Spec2Model ----
(***************************************************************************)
(* Model of app.py, the weight-tracker web application.                    *)
(*                                                                         *)
(* The persisted state is the JSON document data/data.json.  Every route   *)
(* handler is a function of the request and of the document it loaded; it  *)
(* returns a response and possibly saves a whole new document.             *)
(*                                                                         *)
(* Spec      serves one request at a time (each handler is one step), for  *)
(*           each of the populations of clients in Clients.                *)
(* SpecConc  serves requests on several threads: a request loads the       *)
(*           document in one step and finishes (and saves) in a later one. *)
(*           load_data and save_data are each taken as a single step.      *)
(***************************************************************************)
EXTENDS Integers, Sequences, FiniteSets, TLC

VARIABLES
    file,       \* data/data.json: does it exist, and the document it holds
    last,       \* the request answered last, what it loaded and how it ended
    pending,    \* per server thread: the request in flight and the file it loaded
    clobbered,  \* the file as another request saved it and the last save replaced it
    started,    \* number of requests the threaded server has accepted
    clients     \* what the clients of this run submit: names, dates and weights

vars == <<file, last, pending, clobbered, started, clients>>

----------------------------------------------------------------------------
(* Bounds of the model *)

\* most samples the document holds (add_data is not offered beyond it)
MaxSamples == 3
\* number of requests the threaded server accepts in SpecConc
MaxRequests == 4

----------------------------------------------------------------------------
(* Values *)

\* request.form.get(k) of a field that was not submitted
None == "<None>"

\* the populations of clients: two users who submit two dates and two
\* weights, or three users who submit one date and one weight
Clients ==
    {[names |-> {"ann", "bob"}, dates |-> {"2024-01-01", "2024-01-02"},
      weights |-> {"70", "80"}],
     [names |-> {"ann", "bob", "cy"}, dates |-> {"2024-01-01"},
      weights |-> {"70"}]}

Names == clients.names

\* the triple random.random() draws for a new user, as a token
Colors == {"rgb1", "rgb2"}

\* str.strip() on the strings submitted here: only " " has outer whitespace
Strip(s) == IF s = " " THEN "" ELSE s

\* float(s): the value of the strings that are numbers; others raise ValueError
FloatOf == ("70" :> 70) @@ ("80" :> 80)

IsFloat(s) == s \in DOMAIN FloatOf

\* datetime.strptime(s, '%Y-%m-%d').timestamp(): seconds since the epoch of
\* midnight of the date (UTC); other strings raise ValueError
DateOf == ("2024-01-01" :> 1704067200) @@ ("2024-01-02" :> 1704153600)

IsDate(s) == s \in DOMAIN DateOf

\* str(x) of a float with an integral value
StrFloat(x) == ToString(x) \o ".0"

\* not s, for a form value
Falsy(s) == s = None \/ s = ""

Timestamps == {DateOf[d] : d \in clients.dates}

\* what is submitted in the forms and URLs
NameVals == {None, " "} \cup Names
UserVals == {None} \cup Names
GoalVals == {None, " ", "abc", "70", "80"}
DateVals == {None, "2024-13-01"} \cup clients.dates
WeightVals == {None, "abc"} \cup clients.weights
TimestampVals == {StrFloat(t) : t \in Timestamps} \cup {"1704067200"}

----------------------------------------------------------------------------
(* The document *)

\* {}
EmptyDict == [k \in {} |-> k]

\* {'users': {}, 'colors': {}}
EmptyData == [users |-> EmptyDict, colors |-> EmptyDict]

\* load_data
load_data(f) == IF ~f.exists THEN EmptyData ELSE f.data

\* save_data
save_data(data) == [exists |-> TRUE, data |-> data]

\* d with key k removed (dict.pop / del)
Without(d, k) == [x \in DOMAIN d \ {k} |-> d[x]]

\* d with d[k] = v
With(d, k, v) == (k :> v) @@ d

\* SortByTimestamp, had the sort been left out
SortSkipped(s) == s

\* list.sort(key=lambda x: x['timestamp']) is stable: x goes after
\* every sample that is not later
InsertSample(s, x) ==
    LET n == Cardinality({i \in 1..Len(s) : s[i].timestamp <= x.timestamp})
    IN  SubSeq(s, 1, n) \o <<x>> \o SubSeq(s, n + 1, Len(s))

RECURSIVE SortByTimestamp(_)
SortByTimestamp(s) ==
    IF s = << >> THEN << >>
    ELSE InsertSample(SortByTimestamp(SubSeq(s, 1, Len(s) - 1)), s[Len(s)])

\* RejectTimestamp, had the timestamps been compared as whole numbers
RejectWholeNumber(s, timestamp) ==
    SelectSeq(s, LAMBDA w : StrFloat(w.timestamp) # timestamp
                             /\ ToString(w.timestamp) # timestamp)

\* [w for w in weights if str(w['timestamp']) != timestamp]
RejectTimestamp(s, timestamp) ==
    SelectSeq(s, LAMBDA w : StrFloat(w.timestamp) # timestamp)

\* FirstEntry, had the last matching sample been taken
LastEntry(s, timestamp) ==
    LET hits == {i \in 1..Len(s) : StrFloat(s[i].timestamp) = timestamp}
    IN  IF hits = {} THEN 0 ELSE CHOOSE i \in hits : \A j \in hits : i >= j

\* index of next(w for w in weights if str(w['timestamp']) == timestamp), 0 for None
FirstEntry(s, timestamp) ==
    LET hits == {i \in 1..Len(s) : StrFloat(s[i].timestamp) = timestamp}
    IN  IF hits = {} THEN 0 ELSE CHOOSE i \in hits : \A j \in hits : i <= j

----------------------------------------------------------------------------
(* Requests and results *)

Req(h, method) ==
    [h |-> h, method |-> method, username |-> None, timestamp |-> None,
     name |-> None, goal |-> None, user |-> None, date |-> None,
     weight |-> None, old_name |-> None, new_name |-> None, color |-> None]

\* how a handler ends: its response, whether it called save_data, and the
\* in-memory structure it then holds
Result(resp, saved, data) == [resp |-> resp, saved |-> saved, data |-> data]

\* data with the samples of user replaced
WithWeights(data, user, weights) ==
    [data EXCEPT !.users = With(data.users, user,
                                [data.users[user] EXCEPT !.weights = weights])]

----------------------------------------------------------------------------
(* The route handlers, from the loaded data on *)

\* generate_chart sorts each plotted user's samples in place and reads its color
ChartData(data) ==
    [data EXCEPT !.users =
        [u \in DOMAIN data.users |->
            [data.users[u] EXCEPT !.weights = SortByTimestamp(@)]]]

\* On_index, had index saved the data generate_chart sorted
On_index_saving(req, data) ==
    IF \E u \in DOMAIN data.users :
          data.users[u].weights # << >> /\ u \notin DOMAIN data.colors
    THEN Result("crash", FALSE, data)
    ELSE Result("render", TRUE, ChartData(data))

On_index(req, data) ==
    IF \E u \in DOMAIN data.users :
          data.users[u].weights # << >> /\ u \notin DOMAIN data.colors
    THEN Result("crash", FALSE, data)
    ELSE Result("render", FALSE, ChartData(data))

On_view_data(req, data) ==
    IF req.username \notin DOMAIN data.users
    THEN Result("flash", FALSE, data)
    ELSE Result("render", FALSE, data)

On_edit_entry(req, data) ==
    IF req.username \notin DOMAIN data.users THEN Result("flash", FALSE, data)
    ELSE
    LET weights == data.users[req.username].weights
        i       == FirstEntry(weights, req.timestamp)
    IN
    IF i = 0 THEN Result("flash", FALSE, data)
    ELSE IF req.method # "POST" THEN Result("render", FALSE, data)
    ELSE IF Falsy(req.date) \/ Falsy(req.weight) THEN Result("flash", FALSE, data)
    ELSE IF ~IsDate(req.date) THEN Result("crash", FALSE, data)
    ELSE
    LET w1 == [weights EXCEPT ![i].timestamp = DateOf[req.date]]
    IN
    IF ~IsFloat(req.weight)
    THEN Result("crash", FALSE, WithWeights(data, req.username, w1))
    ELSE
    LET w2 == [w1 EXCEPT ![i].weight = FloatOf[req.weight]]
    IN  Result("redirect", TRUE,
               WithWeights(data, req.username, SortByTimestamp(w2)))

On_delete_entry(req, data) ==
    IF req.username \notin DOMAIN data.users THEN Result("flash", FALSE, data)
    ELSE Result("redirect", TRUE,
                WithWeights(data, req.username,
                    RejectTimestamp(data.users[req.username].weights,
                                    req.timestamp)))

\* add_user up to load_data: "go on" when it reaches load_data
Before_add_user(req) ==
    IF req.method # "POST" THEN "render"
    ELSE IF req.name = None \/ req.goal = None THEN "crash"
    ELSE IF Strip(req.name) = "" \/ Strip(req.goal) = "" THEN "error"
    ELSE "go on"

\* On_add_user, had the check for an existing user been left out
On_add_user_overwriting(req, data) ==
    LET name == Strip(req.name)
        goal == Strip(req.goal)
    IN
    IF ~IsFloat(goal) THEN Result("crash", FALSE, data)
    ELSE Result("redirect", TRUE,
                [users  |-> With(data.users, name,
                                 [goal |-> FloatOf[goal], weights |-> << >>]),
                 colors |-> With(data.colors, name, req.color)])

On_add_user(req, data) ==
    LET name == Strip(req.name)
        goal == Strip(req.goal)
    IN
    IF name \in DOMAIN data.users THEN Result("error", FALSE, data)
    ELSE IF ~IsFloat(goal) THEN Result("crash", FALSE, data)
    ELSE Result("redirect", TRUE,
                [users  |-> With(data.users, name,
                                 [goal |-> FloatOf[goal], weights |-> << >>]),
                 colors |-> With(data.colors, name, req.color)])

On_add_data(req, data) ==
    IF req.method # "POST" THEN Result("render", FALSE, data)
    ELSE IF Falsy(req.user) \/ Falsy(req.date) \/ Falsy(req.weight)
    THEN Result("error", FALSE, data)
    ELSE IF ~IsDate(req.date) THEN Result("crash", FALSE, data)
    ELSE IF req.user \notin DOMAIN data.users THEN Result("crash", FALSE, data)
    ELSE IF ~IsFloat(req.weight) THEN Result("crash", FALSE, data)
    ELSE
    LET appended == Append(data.users[req.user].weights,
                           [timestamp |-> DateOf[req.date],
                            weight    |-> FloatOf[req.weight]])
    IN  Result("redirect", TRUE,
               WithWeights(data, req.user, SortByTimestamp(appended)))

\* On_edit_user, had save_data been called before float(goal)
On_edit_user_saving_early(req, data) ==
    IF req.method # "POST" THEN Result("render", FALSE, data)
    ELSE IF req.new_name = None \/ req.goal = None
    THEN Result("crash", FALSE, data)
    ELSE
    LET old_name == req.old_name
        new_name == Strip(req.new_name)
        goal     == Strip(req.goal)
    IN
    IF Falsy(old_name) \/ new_name = "" \/ goal = ""
    THEN Result("error", FALSE, data)
    ELSE IF old_name # new_name /\ new_name \in DOMAIN data.users
    THEN Result("error", FALSE, data)
    ELSE IF old_name \notin DOMAIN data.users THEN Result("crash", FALSE, data)
    ELSE
    LET d1 == [data EXCEPT !.users = With(Without(data.users, old_name),
                                          new_name, data.users[old_name])]
    IN
    IF ~IsFloat(goal) THEN Result("crash", TRUE, d1)
    ELSE
    LET d2 == [d1 EXCEPT !.users = With(d1.users, new_name,
                     [d1.users[new_name] EXCEPT !.goal = FloatOf[goal]])]
    IN
    IF old_name \notin DOMAIN d2.colors THEN Result("crash", FALSE, d2)
    ELSE Result("redirect", TRUE,
                [d2 EXCEPT !.colors = With(Without(d2.colors, old_name),
                                           new_name, d2.colors[old_name])])

\* On_edit_user, had the record been copied to new_name, not popped
On_edit_user_copying(req, data) ==
    IF req.method # "POST" THEN Result("render", FALSE, data)
    ELSE IF req.new_name = None \/ req.goal = None
    THEN Result("crash", FALSE, data)
    ELSE
    LET old_name == req.old_name
        new_name == Strip(req.new_name)
        goal     == Strip(req.goal)
    IN
    IF Falsy(old_name) \/ new_name = "" \/ goal = ""
    THEN Result("error", FALSE, data)
    ELSE IF old_name # new_name /\ new_name \in DOMAIN data.users
    THEN Result("error", FALSE, data)
    ELSE IF old_name \notin DOMAIN data.users THEN Result("crash", FALSE, data)
    ELSE
    LET d1 == [data EXCEPT !.users = With(data.users,
                                          new_name, data.users[old_name])]
    IN
    IF ~IsFloat(goal) THEN Result("crash", FALSE, d1)
    ELSE
    LET d2 == [d1 EXCEPT !.users = With(d1.users, new_name,
                     [d1.users[new_name] EXCEPT !.goal = FloatOf[goal]])]
    IN
    IF old_name \notin DOMAIN d2.colors THEN Result("crash", FALSE, d2)
    ELSE Result("redirect", TRUE,
                [d2 EXCEPT !.colors = With(Without(d2.colors, old_name),
                                           new_name, d2.colors[old_name])])

On_edit_user(req, data) ==
    IF req.method # "POST" THEN Result("render", FALSE, data)
    ELSE IF req.new_name = None \/ req.goal = None
    THEN Result("crash", FALSE, data)
    ELSE
    LET old_name == req.old_name
        new_name == Strip(req.new_name)
        goal     == Strip(req.goal)
    IN
    IF Falsy(old_name) \/ new_name = "" \/ goal = ""
    THEN Result("error", FALSE, data)
    ELSE IF old_name # new_name /\ new_name \in DOMAIN data.users
    THEN Result("error", FALSE, data)
    ELSE IF old_name \notin DOMAIN data.users THEN Result("crash", FALSE, data)
    ELSE
    LET d1 == [data EXCEPT !.users = With(Without(data.users, old_name),
                                          new_name, data.users[old_name])]
    IN
    IF ~IsFloat(goal) THEN Result("crash", FALSE, d1)
    ELSE
    LET d2 == [d1 EXCEPT !.users = With(d1.users, new_name,
                     [d1.users[new_name] EXCEPT !.goal = FloatOf[goal]])]
    IN
    IF old_name \notin DOMAIN d2.colors THEN Result("crash", FALSE, d2)
    ELSE Result("redirect", TRUE,
                [d2 EXCEPT !.colors = With(Without(d2.colors, old_name),
                                           new_name, d2.colors[old_name])])

\* On_delete_user, had del data['colors'][user] been left out
On_delete_user_keeping_color(req, data) ==
    IF req.method # "POST" THEN Result("render", FALSE, data)
    ELSE IF req.user \notin DOMAIN data.users
    THEN Result("redirect", FALSE, data)
    ELSE
    LET d1 == [data EXCEPT !.users = Without(data.users, req.user)]
    IN
    IF req.user \notin DOMAIN d1.colors THEN Result("crash", FALSE, d1)
    ELSE Result("redirect", TRUE,
                d1)

On_delete_user(req, data) ==
    IF req.method # "POST" THEN Result("render", FALSE, data)
    ELSE IF req.user \notin DOMAIN data.users
    THEN Result("redirect", FALSE, data)
    ELSE
    LET d1 == [data EXCEPT !.users = Without(data.users, req.user)]
    IN
    IF req.user \notin DOMAIN d1.colors THEN Result("crash", FALSE, d1)
    ELSE Result("redirect", TRUE,
                [d1 EXCEPT !.colors = Without(d1.colors, req.user)])

\* what a request does before it calls load_data
BeforeLoad(req) ==
    IF req.h = "add_user" THEN Before_add_user(req) ELSE "go on"

\* the routes
Handle(req, data) ==
    CASE req.h = "index"        -> On_index(req, data)
      [] req.h = "view_data"    -> On_view_data(req, data)
      [] req.h = "edit_entry"   -> On_edit_entry(req, data)
      [] req.h = "delete_entry" -> On_delete_entry(req, data)
      [] req.h = "add_user"     -> On_add_user(req, data)
      [] req.h = "add_data"     -> On_add_data(req, data)
      [] req.h = "edit_user"    -> On_edit_user(req, data)
      [] req.h = "delete_user"  -> On_delete_user(req, data)

----------------------------------------------------------------------------
(* The server *)

Threads == {1, 2}

NoRequest == Req("none", "GET")

NoFile == [exists |-> FALSE, data |-> EmptyData]

Idle == [busy |-> FALSE, req |-> NoRequest, before |-> NoFile, stale |-> FALSE]

\* no request is being answered
NoAnswer ==
    [req |-> NoRequest, resp |-> "none", loaded |-> FALSE, saved |-> FALSE,
     stale |-> FALSE, before |-> NoFile]

Init ==
    /\ file = NoFile
    /\ last = NoAnswer
    /\ clobbered = NoFile
    /\ clients \in Clients
    /\ pending = [t \in Threads |-> Idle]
    /\ started = 0

RECURSIVE SumLen(_, _)
SumLen(users, names) ==
    IF names = {} THEN 0
    ELSE LET u == CHOOSE n \in names : TRUE
         IN  Len(users[u].weights) + SumLen(users, names \ {u})

\* number of samples in the document
TotalSamples(data) == SumLen(data.users, DOMAIN data.users)

\* the model offers add_data only while the document holds fewer than MaxSamples
InBounds(req, data) ==
    req.h = "add_data" => TotalSamples(data) < MaxSamples

\* the request returns (or raises) before load_data
AnswerUnloaded(req, resp) ==
    /\ last' = [req |-> req, resp |-> resp, loaded |-> FALSE, saved |-> FALSE,
                stale |-> FALSE, before |-> file]
    /\ UNCHANGED <<file, clobbered>>

\* the request returns (or raises) with result r; before is the file as the
\* request loaded it, stale tells that another request saved since then
Answer(req, before, stale, r) ==
    /\ last' = [req |-> req, resp |-> r.resp, loaded |-> TRUE, saved |-> r.saved,
                stale |-> stale, before |-> before]
    /\ file' = IF r.saved THEN save_data(r.data) ELSE file
    /\ clobbered' = IF r.saved /\ stale THEN file ELSE clobbered

\* what random.random() may give the request: nothing is drawn unless
\* add_user gets as far as the draw
Drawn(req, data) ==
    IF /\ req.h = "add_user"
       /\ BeforeLoad(req) = "go on"
       /\ Strip(req.name) \notin DOMAIN data.users
       /\ IsFloat(Strip(req.goal))
    THEN Colors
    ELSE {None}

\* one request served from start to end with no other request in between
Serve(req) ==
    /\ InBounds(req, load_data(file))
    /\ LET early == BeforeLoad(req)
           r     == Handle(req, load_data(file))
       IN  IF early # "go on"
           THEN AnswerUnloaded(req, early)
           ELSE Answer(req, file, FALSE, r)
    /\ UNCHANGED <<pending, started, clients>>

index ==
    /\ last.resp = "none"
    /\ Serve(Req("index", "GET"))

view_data ==
    /\ last.resp = "none"
    /\ \E username \in Names :
         Serve([Req("view_data", "GET") EXCEPT !.username = username])

edit_entry ==
    /\ last.resp = "none"
    /\ \E username \in Names, timestamp \in TimestampVals :
         \/ Serve([Req("edit_entry", "GET") EXCEPT
                     !.username = username, !.timestamp = timestamp])
         \/ \E date \in DateVals, weight \in WeightVals :
              Serve([Req("edit_entry", "POST") EXCEPT
                       !.username = username, !.timestamp = timestamp,
                       !.date = date, !.weight = weight])

delete_entry ==
    /\ last.resp = "none"
    /\ \E username \in Names, timestamp \in TimestampVals :
         Serve([Req("delete_entry", "POST") EXCEPT
                  !.username = username, !.timestamp = timestamp])

add_user ==
    /\ last.resp = "none"
    /\ \/ Serve(Req("add_user", "GET"))
       \/ \E name \in NameVals, goal \in GoalVals :
            \E color \in Drawn([Req("add_user", "POST") EXCEPT
                                  !.name = name, !.goal = goal], load_data(file)) :
                Serve([Req("add_user", "POST") EXCEPT
                         !.name = name, !.goal = goal, !.color = color])

add_data ==
    /\ last.resp = "none"
    /\ \/ Serve(Req("add_data", "GET"))
       \/ \E user \in UserVals, date \in DateVals, weight \in WeightVals :
            Serve([Req("add_data", "POST") EXCEPT
                     !.user = user, !.date = date, !.weight = weight])

edit_user ==
    /\ last.resp = "none"
    /\ \/ Serve(Req("edit_user", "GET"))
       \/ \E old_name \in UserVals, new_name \in NameVals, goal \in GoalVals :
            Serve([Req("edit_user", "POST") EXCEPT
                     !.old_name = old_name, !.new_name = new_name, !.goal = goal])

delete_user ==
    /\ last.resp = "none"
    /\ \/ Serve(Req("delete_user", "GET"))
       \/ \E user \in UserVals :
            Serve([Req("delete_user", "POST") EXCEPT !.user = user])

\* the response is sent and the request's context is torn down; the server
\* takes the next request
respond ==
    /\ last.resp # "none"
    /\ last' = NoAnswer
    /\ UNCHANGED <<file, pending, clobbered, started, clients>>

Next ==
    \/ respond
    \/ index
    \/ view_data
    \/ edit_entry
    \/ delete_entry
    \/ add_user
    \/ add_data
    \/ edit_user
    \/ delete_user

Spec == Init /\ [][Next]_vars

----------------------------------------------------------------------------
(* The threaded server: requests overlap between load_data and save_data *)

\* the requests offered to the threaded server
ConcNames == {"ann", "bob"}

ConcRequests ==
    {Req("index", "GET")}
    \cup {[Req("view_data", "GET") EXCEPT !.username = "ann"]}
    \cup {[Req("add_user", "POST") EXCEPT !.name = n, !.goal = "70"] :
            n \in ConcNames}
    \cup {[Req("add_data", "POST") EXCEPT !.user = u, !.date = d, !.weight = "70"] :
            u \in ConcNames, d \in clients.dates}
    \cup {[Req("add_data", "POST") EXCEPT !.user = "ann", !.date = "2024-01-01",
                                           !.weight = "abc"]}
    \cup {[Req("edit_entry", "POST") EXCEPT !.username = u,
             !.timestamp = StrFloat(DateOf["2024-01-01"]),
             !.date = "2024-01-02", !.weight = "80"] : u \in ConcNames}
    \cup {[Req("delete_entry", "POST") EXCEPT !.username = u,
             !.timestamp = StrFloat(DateOf["2024-01-01"])] : u \in ConcNames}
    \cup {[Req("edit_user", "POST") EXCEPT !.old_name = o, !.new_name = n,
                                            !.goal = "80"] :
            o \in ConcNames, n \in ConcNames}
    \cup {[Req("delete_user", "POST") EXCEPT !.user = u] : u \in ConcNames}

\* FinishResult, had the request held a lock from load_data to save_data
FinishLocked(t) == Handle(pending[t].req, load_data(file))

\* what the request of thread t does with the data it loaded
FinishResult(t) == Handle(pending[t].req, load_data(pending[t].before))

\* thread t accepts a request and runs it up to and including load_data
Begin(t) ==
    /\ ~pending[t].busy
    /\ started < MaxRequests
    /\ started' = started + 1
    /\ UNCHANGED clients
    /\ \E r \in ConcRequests :
         \E color \in Drawn(r, load_data(file)) :
           LET req == [r EXCEPT !.color = color] IN
           /\ InBounds(req, load_data(file))
           /\ IF BeforeLoad(req) # "go on"
              THEN AnswerUnloaded(req, BeforeLoad(req)) /\ UNCHANGED pending
              ELSE /\ pending' = [pending EXCEPT ![t] =
                          [busy |-> TRUE, req |-> req, before |-> file,
                           stale |-> FALSE]]
                   /\ UNCHANGED <<file, last, clobbered>>

\* thread t runs its request from load_data to its response
Finish(t) ==
    /\ pending[t].busy
    /\ Answer(pending[t].req, pending[t].before, pending[t].stale, FinishResult(t))
    /\ pending' = [u \in Threads |->
                     IF u = t THEN Idle
                     ELSE [pending[u] EXCEPT
                             !.stale = @ \/ (pending[u].busy /\ FinishResult(t).saved)]]
    /\ UNCHANGED <<started, clients>>

NextConc == \E t \in Threads : Begin(t) \/ Finish(t)

InitConc == Init /\ clients.names = ConcNames

SpecConc == InitConc /\ [][NextConc]_vars

----------------------------------------------------------------------------
(* Reading the answered request *)

\* the document the request answered last started from, and the document now
Was == load_data(last.before)
Now == load_data(file)

IsPost(h) == last.req.h = h /\ last.req.method = "POST"

\* user u has the same record and the same color in documents a and b
SameUser(a, b, u) ==
    /\ (u \in DOMAIN a.users) = (u \in DOMAIN b.users)
    /\ (u \in DOMAIN a.colors) = (u \in DOMAIN b.colors)
    /\ u \in DOMAIN a.users /\ u \in DOMAIN b.users => a.users[u] = b.users[u]
    /\ u \in DOMAIN a.colors /\ u \in DOMAIN b.colors => a.colors[u] = b.colors[u]

\* in Spec, where no other request comes in between
NotWritten == ~last.saved /\ file = last.before

Sorted(s) == \A i, j \in 1..Len(s) : i < j => s[i].timestamp <= s[j].timestamp

\* number of occurrences of x in s
Count(s, x) == Cardinality({i \in 1..Len(s) : s[i] = x})

SameBag(s, t) ==
    /\ Len(s) = Len(t)
    /\ \A i \in 1..Len(s) : Count(s, s[i]) = Count(t, s[i])

\* indices of the samples of s whose timestamp reads as the string ts
Matching(s, ts) == {i \in 1..Len(s) : StrFloat(s[i].timestamp) = ts}

\* t is s restricted to the indices in keep, in the same order
Restricted(s, keep, t) ==
    /\ Len(t) = Cardinality(keep)
    /\ \E f \in [1..Len(t) -> keep] :
         /\ \A i, j \in 1..Len(t) : i < j => f[i] < f[j]
         /\ \A i \in 1..Len(t) : t[i] = s[f[i]]

\* the handlers that can change the document
Mutating == {"add_user", "add_data", "edit_entry", "delete_entry",
             "edit_user", "delete_user"}

----------------------------------------------------------------------------
(* C1 *)

\* C1 as stated: every request a handler serves loads the document and
\* overwrites the data file before it responds.
C1_EveryRequestLoadsAndSaves ==
    last.resp # "none" => last.loaded /\ last.saved /\ file.exists

\* C1 amended: every request loads the whole document, except an add_user
\* that is a GET or lacks a field; the file is overwritten, with the whole
\* in-memory document, exactly by the POST requests of the mutating handlers
\* that end in their success redirect (for delete_user: of an existing user);
\* index, view_data, GET requests and failed requests leave the file as it is.
C1_WritesOnlyOnMutation ==
    last.resp # "none" =>
        /\ last.loaded =
             ~(/\ last.req.h = "add_user"
               /\ \/ last.req.method = "GET"
                  \/ last.req.name = None \/ last.req.goal = None
                  \/ Strip(last.req.name) = "" \/ Strip(last.req.goal) = "")
        /\ last.saved =
             /\ last.req.h \in Mutating
             /\ last.req.method = "POST"
             /\ last.resp = "redirect"
             /\ last.req.h = "delete_user" => last.req.user \in DOMAIN Was.users
        /\ last.saved => last.loaded /\ file.exists
        /\ last.saved =>
             \A u \in DOMAIN Was.users :
                 u \notin {last.req.username, last.req.user, last.req.old_name}
                     => SameUser(Was, Now, u)
        /\ ~last.saved => file = last.before

\* a request loaded a document of three users and overwrote the file
C1_Witness_Overwritten ==
    /\ IsPost("add_data") /\ last.loaded /\ last.saved
    /\ Cardinality(DOMAIN Was.users) = 3
    /\ TotalSamples(Was) = 2 /\ TotalSamples(Now) = 3

----------------------------------------------------------------------------
(* C2 *)

\* C2: in the persisted document every user's samples are in order of
\* non-decreasing timestamp.
C2_SamplesSorted ==
    \A u \in DOMAIN file.data.users : Sorted(file.data.users[u].weights)

\* edit_entry moved a sample past a later one and saved
C2_Witness_Reordered ==
    /\ IsPost("edit_entry") /\ last.saved
    /\ LET wb == Was.users[last.req.username].weights
           i  == CHOOSE k \in Matching(wb, last.req.timestamp) :
                    \A j \in Matching(wb, last.req.timestamp) : k <= j
       IN  /\ i < Len(wb)
           /\ DateOf[last.req.date] > wb[i + 1].timestamp

----------------------------------------------------------------------------
(* C3 *)

\* C3: the persisted document holds a color for exactly the users that have
\* a record, whatever the interleaving of the requests.
C3_ColorsMatchUsers == DOMAIN file.data.colors = DOMAIN file.data.users

\* a request that renamed or deleted a user saved over another request's save
C3_Witness_Interleaved ==
    /\ last.saved /\ last.stale
    /\ last.req.h \in {"edit_user", "delete_user"}
    /\ DOMAIN file.data.users # {}
    /\ DOMAIN file.data.users # DOMAIN clobbered.data.users

----------------------------------------------------------------------------
(* C4 *)

\* the users a request names
Touched(req) ==
    {req.username, req.user, Strip(req.name), req.old_name, Strip(req.new_name)}

\* C4: when a request saves after another request saved since it loaded,
\* the document is what the saving request alone makes of the document it
\* loaded: every user it does not name is as it was loaded, so what the
\* other request changed is gone.
C4_LostUpdate ==
    (last.saved /\ last.stale) =>
        /\ file.data = Handle(last.req, Was).data
        /\ \A u \in Names \ Touched(last.req) : SameUser(Was, Now, u)

\* two add_data requests for different users overlapped: the sample the
\* first one saved is no longer in the document
C4_Witness_SampleLost ==
    /\ last.saved /\ last.stale /\ last.req.h = "add_data"
    /\ \E u \in DOMAIN file.data.users :
         /\ u # last.req.user
         /\ u \in DOMAIN clobbered.data.users
         /\ Len(clobbered.data.users[u].weights) = 1
         /\ Len(file.data.users[u].weights) = 0
    /\ Len(file.data.users[last.req.user].weights) = 1

----------------------------------------------------------------------------
(* C5 *)

\* a submitted field that is present, not blank, and of the wrong form
BadNumber(s) == s # None /\ Strip(s) # "" /\ ~IsFloat(Strip(s))
BadDate(s) == ~Falsy(s) /\ ~IsDate(s)
NoRecord(u) == ~Falsy(u) /\ u \notin DOMAIN Was.users

\* the request answered last has one of the bad inputs of C5
C5_BadInput ==
    \/ IsPost("add_data") /\ NoRecord(last.req.user)
    \/ IsPost("edit_user") /\ NoRecord(last.req.old_name)
    \/ (IsPost("add_user") \/ IsPost("edit_user")) /\ BadNumber(last.req.goal)
    \/ (IsPost("add_data") \/ IsPost("edit_entry")) /\ BadNumber(last.req.weight)
    \/ (IsPost("add_data") \/ IsPost("edit_entry")) /\ BadDate(last.req.date)

\* the request has a bad input and passes every check made before the
\* statement that reads it
C5_ReachesBadInput ==
    \/ /\ IsPost("add_data")
       /\ ~Falsy(last.req.user) /\ ~Falsy(last.req.date) /\ ~Falsy(last.req.weight)
       /\ \/ BadDate(last.req.date)
          \/ NoRecord(last.req.user)
          \/ BadNumber(last.req.weight)
    \/ /\ IsPost("edit_entry")
       /\ last.req.username \in DOMAIN Was.users
       /\ Matching(Was.users[last.req.username].weights, last.req.timestamp) # {}
       /\ ~Falsy(last.req.date) /\ ~Falsy(last.req.weight)
       /\ BadDate(last.req.date) \/ BadNumber(last.req.weight)
    \/ /\ IsPost("add_user")
       /\ last.req.name # None /\ Strip(last.req.name) # ""
       /\ Strip(last.req.name) \notin DOMAIN Was.users
       /\ BadNumber(last.req.goal)
    \/ /\ IsPost("edit_user")
       /\ ~Falsy(last.req.old_name)
       /\ last.req.new_name # None /\ Strip(last.req.new_name) # ""
       /\ last.req.goal # None /\ Strip(last.req.goal) # ""
       /\ ~(last.req.old_name # Strip(last.req.new_name)
              /\ Strip(last.req.new_name) \in DOMAIN Was.users)
       /\ NoRecord(last.req.old_name) \/ BadNumber(last.req.goal)

----------------------------------------------------------------------------
(* C6 *)

\* C6: delete_entry of an existing user saves that user's samples without
\* those whose timestamp reads as the requested string, the others in the
\* same order; the user's goal and color and every other user are as before.
\* For a user with no record nothing is written.
C6_DeleteEntryFrame ==
    IsPost("delete_entry") =>
        IF last.req.username \in DOMAIN Was.users
        THEN LET u  == last.req.username
                 wb == Was.users[u].weights
             IN  /\ last.saved /\ file.exists
                 /\ DOMAIN Now.users = DOMAIN Was.users
                 /\ DOMAIN Now.colors = DOMAIN Was.colors
                 /\ Restricted(wb, (1..Len(wb)) \ Matching(wb, last.req.timestamp),
                               Now.users[u].weights)
                 /\ Now.users[u].goal = Was.users[u].goal
                 /\ Now.colors[u] = Was.colors[u]
                 /\ \A v \in Names \ {u} : SameUser(Was, Now, v)
        ELSE NotWritten

\* delete_entry removed two of three samples of a user, another user present
C6_Witness_Removed ==
    /\ IsPost("delete_entry") /\ last.saved
    /\ Len(Was.users[last.req.username].weights) = 3
    /\ Len(Now.users[last.req.username].weights) = 1
    /\ Cardinality(DOMAIN Was.users) > 1

----------------------------------------------------------------------------
(* C7 *)

\* C7: an edit_entry POST that succeeds replaces, in the named user's samples,
\* the first one whose timestamp reads as the requested string by the
\* submitted date and weight: same number of samples, the same samples
\* otherwise, goal, color and every other user as before.  When the user or
\* the entry is not found or a field is missing nothing is written.
C7_EditEntryOneSample ==
    IsPost("edit_entry") =>
        LET u == last.req.username IN
        IF u \in DOMAIN Was.users
        THEN LET wb   == Was.users[u].weights
                 hits == Matching(wb, last.req.timestamp)
             IN  /\ (hits = {} \/ Falsy(last.req.date) \/ Falsy(last.req.weight))
                        => NotWritten /\ last.resp = "flash"
                 /\ last.saved =>
                      LET i   == CHOOSE k \in hits : \A j \in hits : k <= j
                          new == [timestamp |-> DateOf[last.req.date],
                                  weight    |-> FloatOf[last.req.weight]]
                          wa  == Now.users[u].weights
                      IN  /\ hits # {}
                          /\ Len(wa) = Len(wb)
                          /\ SameBag(wa, [wb EXCEPT ![i] = new])
                          /\ DOMAIN Now.users = DOMAIN Was.users
                          /\ Now.users[u].goal = Was.users[u].goal
                          /\ Now.colors = Was.colors
                          /\ \A v \in Names \ {u} : SameUser(Was, Now, v)
        ELSE NotWritten /\ last.resp = "flash"

\* edit_entry changed the first of two samples of one timestamp that differ
\* in weight and come after an earlier sample
C7_Witness_FirstOfTwo ==
    /\ IsPost("edit_entry") /\ last.saved
    /\ LET wb == Was.users[last.req.username].weights
       IN  /\ Len(wb) = 3
           /\ Matching(wb, last.req.timestamp) = {2, 3}
           /\ wb[2].weight # wb[3].weight
           /\ DateOf[last.req.date] # wb[2].timestamp

----------------------------------------------------------------------------
(* C8 *)

\* C8: add_user of a name that has a record, and edit_user to a new name,
\* other than the old one, that has a record, end in an error (the error
\* message when every field was submitted) and write nothing; add_user and
\* edit_user leave every record but the renamed one as it was.
C8_ExistingUserKept ==
    /\ (IsPost("add_user") /\ last.req.name # None
          /\ Strip(last.req.name) \in DOMAIN Was.users)
         => /\ NotWritten
            /\ last.resp \in {"error", "crash"}
            /\ last.req.goal # None => last.resp = "error"
    /\ (IsPost("edit_user") /\ last.req.new_name # None
          /\ Strip(last.req.new_name) # last.req.old_name
          /\ Strip(last.req.new_name) \in DOMAIN Was.users)
         => /\ NotWritten
            /\ last.resp \in {"error", "crash"}
            /\ last.req.goal # None => last.resp = "error"
    /\ last.req.h = "add_user"
         => \A u \in DOMAIN Was.users : SameUser(Was, Now, u)
    /\ last.req.h = "edit_user"
         => \A u \in DOMAIN Was.users \ {last.req.old_name} : SameUser(Was, Now, u)

\* edit_user was asked to rename a user to the name of another user whose
\* record differs
C8_Witness_Clash ==
    /\ IsPost("edit_user") /\ last.resp = "error"
    /\ last.req.old_name \in DOMAIN Was.users
    /\ last.req.new_name \in DOMAIN Was.users
    /\ last.req.new_name # last.req.old_name
    /\ IsFloat(last.req.goal)
    /\ Was.users[last.req.new_name] # Was.users[last.req.old_name]
    /\ Was.colors[last.req.new_name] # Was.colors[last.req.old_name]

----------------------------------------------------------------------------
(* C9 *)

\* C9: an edit_user POST that succeeds leaves no record under old_name unless
\* it is new_name, and under new_name the submitted goal with the samples and
\* the color old_name had; as many users as before, the others as before.
C9_EditUserFrame ==
    (IsPost("edit_user") /\ last.saved) =>
        LET old_name == last.req.old_name
            new_name == Strip(last.req.new_name)
        IN  /\ old_name \in DOMAIN Was.users
            /\ old_name # new_name
                 => old_name \notin DOMAIN Now.users /\ old_name \notin DOMAIN Now.colors
            /\ new_name \in DOMAIN Now.users /\ new_name \in DOMAIN Now.colors
            /\ Now.users[new_name] = [goal    |-> FloatOf[Strip(last.req.goal)],
                                      weights |-> Was.users[old_name].weights]
            /\ Now.colors[new_name] = Was.colors[old_name]
            /\ Cardinality(DOMAIN Now.users) = Cardinality(DOMAIN Was.users)
            /\ \A u \in Names \ {old_name, new_name} : SameUser(Was, Now, u)

\* a user with samples was renamed and given another goal, next to a user of
\* another color and another goal
C9_Witness_Renamed ==
    /\ IsPost("edit_user") /\ last.saved
    /\ last.req.old_name # last.req.new_name
    /\ Cardinality(DOMAIN Now.users) = 2
    /\ Was.users[last.req.old_name].weights # << >>
    /\ Was.users[last.req.old_name].goal # FloatOf[last.req.goal]
    /\ \E u \in DOMAIN Was.users :
         /\ u # last.req.old_name
         /\ Was.colors[u] # Was.colors[last.req.old_name]
         /\ Was.users[u].weights # << >>

----------------------------------------------------------------------------
(* C10 *)

\* C10: within one user's samples no two samples have the same timestamp.
C10_TimestampsUnique ==
    \A u \in DOMAIN file.data.users :
        \A i, j \in 1..Len(file.data.users[u].weights) :
            i # j => file.data.users[u].weights[i].timestamp
                        # file.data.users[u].weights[j].timestamp

====
